---- MODULE Spec2Model ----
(***************************************************************************)
(* bancho.py (refx-online): the redis pub/sub dispatch loop                *)
(* (app/redis.py), the performance fan-out (app/usecases/performance.py,   *)
(* app/adapters/omajinai.py) and the leaderboard placement                 *)
(* (app/objects/score.py), as one state machine per subsystem.             *)
(*                                                                         *)
(* Conventions: an Optional value is a sequence of length 0 (None) or 1;   *)
(* floats are modelled by integers (0.0 -> 0, 100.0 -> 100).               *)
(***************************************************************************)
EXTENDS Integers, Sequences, FiniteSets, TLC

None == << >>
Some(v) == << v >>

(***************************************************************************)
(* Bounds of the model.                                                    *)
(***************************************************************************)
\* messages the dispatch loop receives in one run
MaxMsgs == 3
\* requests in one fan-out batch
MaxBatch == 2
\* rows in the scores table
MaxScores == 2
\* register_pubsub decorations in one run of the registration model
MaxRegs == 3

(***************************************************************************)
(* State.                                                                  *)
(***************************************************************************)
VARIABLES
    \* ---- dispatch loop (app/redis.py) ----
    pubsubs,     \* app.state.pubsubs: channel -> handler (registry)
    registrations, \* the register_pubsub decorations executed so far, in order
    pc,          \* where the loop task is suspended: poll, handler, sleep, terminated
    message,     \* the Message the last poll returned (None when there was none)
    termCause,   \* what ended the loop task ("none" while it runs)
    inflight,    \* handler invocations started and not yet finished
    trace,       \* history of handler invocations: start / return / raise events
    nrecv,       \* number of messages received so far
    lastPoll,    \* outcome of the last poll
    accounts,    \* the user ids that exist (from_cache_or_sql finds them)
    online,      \* the user ids in app.state.sessions.players
    restrictedUsers, \* the user ids whose account is restricted
    effects,     \* what the handler invocation that ended last did
    feed,        \* the payload texts the publishers send
    \* ---- performance fan-out (app/usecases/performance.py, omajinai.py) ----
    scores,      \* the caller's ScoreParams objects (mutated in place by _)
    tasks,       \* one task per request: state, response, result, sent params
    beatmap_id,  \* the beatmap_id argument of calculate_performances
    completed,   \* the tasks that have ended, in the order they ended
    fpc,         \* where the caller of calculate_performances is
    results,     \* what calculate_performances returned
    given,       \* the ScoreParams values as they were when the call was made
    single,      \* the arguments of calculate_performance_single (None: not called)
    ret,         \* the tuple calculate_performance_single returned
    \* ---- leaderboard placement (app/objects/score.py) ----
    table,       \* the rows of the scores table
    self,        \* the Score object calculate_placement is called on
    rank,        \* what calculate_placement returned (None before the call)
    loaded,      \* the Score objects Score.from_sql has built, by holder
    loading,     \* the row a from_sql call has fetched and not yet placed, by holder
    stale        \* the holders whose placement was read before a later write

sessionVars == << accounts, online, restrictedUsers, feed >>
loopVars == << pubsubs, registrations, pc, message, termCause, inflight, trace, nrecv,
               lastPoll, accounts, online, restrictedUsers, effects, feed >>
fanVars == << scores, tasks, beatmap_id, completed, fpc, results, given, single, ret >>
placeVars == << table, self, rank, loaded, loading, stale >>
vars == << pubsubs, registrations, pc, message, termCause, inflight, trace, nrecv,
           lastPoll, accounts, online, restrictedUsers, effects, feed,
           scores, tasks, beatmap_id, completed, fpc, results, given, single, ret,
           table, self, rank, loaded, loading, stale >>

(***************************************************************************)
(* Handler registry (app/redis.py, register_pubsub and the four            *)
(* @register_pubsub decorations executed at import).                       *)
(***************************************************************************)
RegisteredChannels ==
    { "refx:refresh_stats", "refx:announce", "refx:restrict", "refx:notify" }

\* a channel no decorator registers
UnregisteredChannel == "refx:unknown"

Channels == RegisteredChannels \cup { UnregisteredChannel }

\* the coroutine functions of app/redis.py that are registered as handlers
Handlers == { "refresh_stats", "announce", "restrict", "notify" }

NoHandler == "None"

\* app.state.pubsubs before any registration: a dict without keys
EmptyRegistry == [ c \in {} |-> NoHandler ]

\* mutant of register_pubsub: a channel that has a handler keeps it
\* (dict.setdefault)
register_pubsub_setdefault(reg, channel, handler) ==
    [ c \in DOMAIN reg \cup { channel } |->
        IF c \in DOMAIN reg THEN reg[c] ELSE handler ]

\* app.state.pubsubs[channel] = handler
register_pubsub(reg, channel, handler) ==
    [ c \in DOMAIN reg \cup { channel } |->
        IF c = channel THEN handler ELSE reg[c] ]

\* the decorations of app/redis.py, in the order the import executes them
ImportedRegistrations ==
    << [ channel |-> "refx:refresh_stats", handler |-> "refresh_stats" ],
       [ channel |-> "refx:announce", handler |-> "announce" ],
       [ channel |-> "refx:restrict", handler |-> "restrict" ],
       [ channel |-> "refx:notify", handler |-> "notify" ] >>

\* the registry once app/redis.py has been imported
ImportedRegistry ==
    register_pubsub(
        register_pubsub(
            register_pubsub(
                register_pubsub(EmptyRegistry, "refx:refresh_stats", "refresh_stats"),
                "refx:announce", "announce"),
            "refx:restrict", "restrict"),
        "refx:notify", "notify")

(***************************************************************************)
(* Messages: channel and data are bytes; bytes.decode() yields the text of *)
(* well-formed UTF-8 and raises otherwise. The text of a payload is the    *)
(* sequence of its characters.                                             *)
(***************************************************************************)
Bytes(text) == [ utf8 |-> TRUE, text |-> text ]
BadBytes == [ utf8 |-> FALSE, text |-> "" ]
BadData == [ utf8 |-> FALSE, text |-> << >> ]

\* "7" and "7|hi"
Payloads == { << "7" >>, << "7", "|", "h", "i" >> }

\* "7|h|i" and "x|hi": a text with two separators, an id that is no number
MalformedPayloads ==
    { << "7", "|", "h", "|", "i" >>, << "x", "|", "h", "i" >> }

\* the messages whose data is one of payloads, or is not UTF-8
MessagesOf(payloads) ==
    [ channel : { Bytes(c) : c \in Channels } \cup { BadBytes },
      data : { Bytes(p) : p \in payloads } \cup { BadData } ]

Messages == MessagesOf(Payloads)

\* bytes.decode(): ok with the text, or a raised UnicodeDecodeError
decode(b) == IF b.utf8 THEN [ ok |-> TRUE, val |-> b.text ]
                       ELSE [ ok |-> FALSE, val |-> b.text ]

\* app.state.pubsubs.get(channel)
lookup(reg, channel) == IF channel \in DOMAIN reg THEN reg[channel] ELSE NoHandler

(***************************************************************************)
(* What the handlers parse: str.split("|") and int().                      *)
(***************************************************************************)
\* str.split(sep): the pieces of s between the occurrences of sep
RECURSIVE split(_, _)
split(s, sep) ==
    IF \A i \in DOMAIN s : s[i] # sep
    THEN << s >>
    ELSE LET k == CHOOSE i \in DOMAIN s :
                    s[i] = sep /\ \A j \in 1 .. i - 1 : s[j] # sep
         IN  << SubSeq(s, 1, k - 1) >> \o split(SubSeq(s, k + 1, Len(s)), sep)

Digits == { "0", "1", "2", "3", "4", "5", "6", "7", "8", "9" }

DigitValue(c) ==
    CASE c = "0" -> 0 [] c = "1" -> 1 [] c = "2" -> 2 [] c = "3" -> 3 [] c = "4" -> 4
      [] c = "5" -> 5 [] c = "6" -> 6 [] c = "7" -> 7 [] c = "8" -> 8 [] c = "9" -> 9

RECURSIVE decimal(_)
decimal(s) ==
    IF s = << >> THEN 0
    ELSE 10 * decimal(SubSeq(s, 1, Len(s) - 1)) + DigitValue(s[Len(s)])

\* int(s) of a text of plain characters: the number a non-empty run of
\* decimal digits denotes, a raised ValueError otherwise
int(s) ==
    IF s # << >> /\ \A i \in DOMAIN s : s[i] \in Digits
    THEN [ ok |-> TRUE, val |-> decimal(s) ]
    ELSE [ ok |-> FALSE, val |-> 0 ]

(***************************************************************************)
(* Sessions (app.state.sessions) as the handlers see them: the accounts    *)
(* that exist, the players that are online, the accounts under restriction.*)
(***************************************************************************)
Users == { 7 }

SessionStates ==
    { s \in [ accounts : SUBSET Users, online : SUBSET Users, restricted : SUBSET Users ] :
        s.online \subseteq s.accounts /\ s.restricted \subseteq s.accounts }

\* one thing a handler invocation did
Ev(op, id, kind, text) == [ op |-> op, id |-> id, kind |-> kind, text |-> text ]

Raised(log) == [ raised |-> TRUE, log |-> log ]
Returned(log) == [ raised |-> FALSE, log |-> log ]

(***************************************************************************)
(* The four handlers. ext is the outcome of the one call a handler awaits  *)
(* (database or cache); a handler yields what it did and whether it raised.*)
(***************************************************************************)
\* mutant of refresh_stats: the stats are broadcast whatever the player is
refresh_stats_always_broadcasts(payload, ext) ==
    LET user_id == int(payload)
    IN  IF ~user_id.ok THEN Raised(<< >>)
        ELSE IF user_id.val \notin online THEN Raised(<< >>)
        ELSE IF ext = "fail" THEN Raised(<< >>)
        ELSE Returned(<< Ev("stats_from_sql_full", user_id.val, "", << >>),
                         Ev("players.enqueue", user_id.val, "user_stats", << >>) >>)

\* refresh_stats (lines 26-35)
refresh_stats(payload, ext) ==
    LET user_id == int(payload)
    IN  IF ~user_id.ok
        THEN Raised(<< >>)                  \* int(payload): ValueError
        ELSE IF user_id.val \notin online
        THEN Raised(<< >>)                  \* players.get is None: AttributeError
        ELSE IF ext = "fail"
        THEN Raised(<< >>)                  \* await player.stats_from_sql_full() raises
        ELSE IF user_id.val \notin restrictedUsers
        THEN Returned(<< Ev("stats_from_sql_full", user_id.val, "", << >>),
                         Ev("players.enqueue", user_id.val, "user_stats", << >>) >>)
        ELSE Returned(<< Ev("stats_from_sql_full", user_id.val, "", << >>) >>)

\* announce (lines 38-55)
announce(payload, ext) ==
    LET score_id == int(payload)
    IN  IF ~score_id.ok
        THEN Raised(<< >>)                  \* int(payload): ValueError
        ELSE IF ext = "fail"
        THEN Raised(<< >>)                  \* Score.from_sql raises, or yields None
        ELSE IF ext = "nochan"
        THEN Returned(<< >>)                \* announce_chan is None
        ELSE Returned(<< Ev("announce_chan.send", score_id.val, "#announce", << >>) >>)

\* restrict (lines 58-65): player.restrict(...) is called without await, the
\* coroutine object it makes is dropped and its body never runs
restrict(payload, ext) ==
    LET parts == split(payload, "|")
    IN  IF Len(parts) # 2
        THEN Raised(<< >>)                  \* unpacking: ValueError
        ELSE LET user_id == int(parts[1])
             IN  IF ~user_id.ok
                 THEN Raised(<< >>)         \* int(user_id): ValueError
                 ELSE IF ext = "fail"
                 THEN Raised(<< >>)         \* await from_cache_or_sql raises
                 ELSE IF user_id.val \notin accounts
                 THEN Raised(<< >>)         \* player is None: AttributeError
                 ELSE Returned(<< Ev("restrict_coroutine_dropped", user_id.val,
                                     "bot", parts[2]) >>)

\* mutant of notify: the payload is split at its first separator only
\* (payload.split("|", 1))
notify_maxsplit(payload, ext) ==
    IF \A i \in DOMAIN payload : payload[i] # "|"
    THEN Raised(<< >>)
    ELSE LET k == CHOOSE i \in DOMAIN payload :
                    payload[i] = "|" /\ \A j \in 1 .. i - 1 : payload[j] # "|"
             user_id == int(SubSeq(payload, 1, k - 1))
         IN  IF ~user_id.ok
             THEN Raised(<< >>)
             ELSE IF user_id.val \notin online
             THEN Raised(<< >>)
             ELSE Returned(<< Ev("player.enqueue", user_id.val, "notification",
                                 SubSeq(payload, k + 1, Len(payload))) >>)

\* mutant of notify: the notification carries the whole payload
notify_whole_payload(payload, ext) ==
    LET parts == split(payload, "|")
    IN  IF Len(parts) # 2
        THEN Raised(<< >>)
        ELSE LET user_id == int(parts[1])
             IN  IF ~user_id.ok
                 THEN Raised(<< >>)
                 ELSE IF user_id.val \notin online
                 THEN Raised(<< >>)
                 ELSE Returned(<< Ev("player.enqueue", user_id.val,
                                     "notification", payload) >>)

\* notify (lines 68-73): no await in its body
notify(payload, ext) ==
    LET parts == split(payload, "|")
    IN  IF Len(parts) # 2
        THEN Raised(<< >>)                  \* unpacking: ValueError
        ELSE LET user_id == int(parts[1])
             IN  IF ~user_id.ok
                 THEN Raised(<< >>)         \* int(user_id): ValueError
                 ELSE IF user_id.val \notin online
                 THEN Raised(<< >>)         \* players.get is None: AttributeError
                 ELSE Returned(<< Ev("player.enqueue", user_id.val,
                                     "notification", parts[2]) >>)

\* handler(payload)
call_handler(handler, payload, ext) ==
    CASE handler = "refresh_stats" -> refresh_stats(payload, ext)
      [] handler = "announce" -> announce(payload, ext)
      [] handler = "restrict" -> restrict(payload, ext)
      [] handler = "notify" -> notify(payload, ext)

\* the outcomes of the call the handler awaits
Outcomes(handler) ==
    CASE handler = "refresh_stats" -> { "ok", "fail" }
      [] handler = "announce" -> { "ok", "fail", "nochan" }
      [] handler = "restrict" -> { "ok", "fail" }
      [] handler = "notify" -> { "ok" }

\* the handler gets as far as its await (where a cancellation can land)
reaches_await(handler, payload) ==
    CASE handler = "refresh_stats" -> int(payload).ok /\ int(payload).val \in online
      [] handler = "announce" -> int(payload).ok
      [] handler = "restrict" ->
            Len(split(payload, "|")) = 2 /\ int(split(payload, "|")[1]).ok
      [] handler = "notify" -> FALSE

(***************************************************************************)
(* Dispatch loop: loop_pubsubs.                                            *)
(***************************************************************************)
\* the loop task as initialize_pubsubs creates it, on a server without users
LoopIdle ==
    /\ pubsubs = ImportedRegistry
    /\ registrations = ImportedRegistrations
    /\ pc = "poll"
    /\ message = None
    /\ termCause = "none"
    /\ inflight = {}
    /\ trace = << >>
    /\ nrecv = 0
    /\ lastPoll = "none"
    /\ accounts = {}
    /\ online = {}
    /\ restrictedUsers = {}
    /\ effects = None
    /\ feed = Payloads

LoopInit ==
    /\ pubsubs = ImportedRegistry
    /\ registrations = ImportedRegistrations
    /\ pc = "poll"
    /\ message = None
    /\ termCause = "none"
    /\ inflight = {}
    /\ trace = << >>
    /\ nrecv = 0
    /\ lastPoll = "none"
    /\ \E s \in SessionStates :
        /\ accounts = s.accounts
        /\ online = s.online
        /\ restrictedUsers = s.restricted
    /\ effects = None
    /\ feed = Payloads

Event(ev, seq) == [ ev |-> ev, seq |-> seq ]

\* mutant of dispatch: the handler is started as a task of its own
\* (asyncio.create_task) and the loop goes on without awaiting it
dispatch_create_task(m, seq) ==
    LET ch == decode(m.channel)
        pl == decode(m.data)
        handler == lookup(pubsubs, ch.val)
    IN  IF ~ch.ok \/ ~pl.ok
        THEN /\ pc' = "terminated"
             /\ termCause' = "decode_error"
             /\ UNCHANGED << inflight, trace >>
        ELSE IF handler = NoHandler
        THEN /\ pc' = "sleep"
             /\ UNCHANGED << termCause, inflight, trace >>
        ELSE /\ pc' = "sleep"
             /\ inflight' = inflight \cup
                    { [ seq |-> seq, handler |-> handler, payload |-> pl.val ] }
             /\ trace' = Append(trace, Event("start", seq))
             /\ UNCHANGED termCause

\* what happens between the return of get_message with message m and the
\* call of the handler or the next suspension of the loop (lines 83-90)
dispatch(m, seq) ==
    LET ch == decode(m.channel)
        pl == decode(m.data)
        handler == lookup(pubsubs, ch.val)
    IN  IF ~ch.ok \/ ~pl.ok
        THEN \* .decode() raised: not a TimeoutError, leaves the while loop
             /\ pc' = "terminated"
             /\ termCause' = "decode_error"
             /\ UNCHANGED << inflight, trace >>
        ELSE IF handler = NoHandler
        THEN \* no handler: fall through to asyncio.sleep
             /\ pc' = "sleep"
             /\ UNCHANGED << termCause, inflight, trace >>
        ELSE \* await handler(payload)
             /\ pc' = "handler"
             /\ inflight' = inflight \cup
                    { [ seq |-> seq, handler |-> handler, payload |-> pl.val ] }
             /\ trace' = Append(trace, Event("start", seq))
             /\ UNCHANGED termCause

\* get_message returns a message
PollMessage ==
    /\ pc = "poll"
    /\ nrecv < MaxMsgs
    /\ \E m \in MessagesOf(feed) :
        /\ message' = Some(m)
        /\ nrecv' = nrecv + 1
        /\ lastPoll' = "message"
        /\ dispatch(m, nrecv + 1)
    /\ UNCHANGED << pubsubs, registrations, sessionVars, effects, fanVars, placeVars >>

\* mutant of PollNone: the delay is taken after a message only
PollNone_no_delay ==
    /\ pc = "poll"
    /\ message' = None
    /\ lastPoll' = "nomessage"
    /\ pc' = "poll"
    /\ UNCHANGED << pubsubs, registrations, termCause, inflight, trace, nrecv,
                    sessionVars, effects, fanVars, placeVars >>

\* get_message returns None after its 1.0 s timeout
PollNone ==
    /\ pc = "poll"
    /\ message' = None
    /\ lastPoll' = "nomessage"
    /\ pc' = "sleep"
    /\ UNCHANGED << pubsubs, registrations, termCause, inflight, trace, nrecv,
                    sessionVars, effects, fanVars, placeVars >>

\* get_message raises TimeoutError: except TimeoutError: continue
PollTimeout ==
    /\ pc = "poll"
    /\ lastPoll' = "timeout"
    /\ pc' = "poll"
    /\ UNCHANGED << pubsubs, registrations, message, termCause, inflight, trace, nrecv,
                    sessionVars, effects, fanVars, placeVars >>

\* get_message raises any other exception (redis ConnectionError, ...):
\* no except clause matches, the coroutine ends with the exception
PollError ==
    /\ pc = "poll"
    /\ lastPoll' = "error"
    /\ pc' = "terminated"
    /\ termCause' = "poll_error"
    /\ UNCHANGED << pubsubs, registrations, message, inflight, trace, nrecv,
                    sessionVars, effects, fanVars, placeVars >>

\* the invocation inv ends having done log; the loop resumes when it is the
\* one it awaits
finish(inv, ev, log) ==
    /\ inflight' = inflight \ { inv }
    /\ trace' = Append(trace, Event(ev, inv.seq))
    /\ effects' = Some([ seq |-> inv.seq, handler |-> inv.handler,
                         payload |-> inv.payload, outcome |-> ev, log |-> log ])
    /\ IF pc = "handler" /\ inv.seq = nrecv
       THEN pc' = "sleep"
       ELSE pc' = pc

\* await handler(payload) returns
HandlerReturn ==
    /\ \E inv \in inflight : \E ext \in Outcomes(inv.handler) :
        LET done == call_handler(inv.handler, inv.payload, ext)
        IN  ~done.raised /\ finish(inv, "return", done.log)
    /\ UNCHANGED << pubsubs, registrations, message, termCause, nrecv, lastPoll,
                    sessionVars, fanVars, placeVars >>

\* mutant of HandlerRaise: the except clause calls the handler again with
\* the same payload
HandlerRaise_retries ==
    /\ \E inv \in inflight : \E ext \in Outcomes(inv.handler) :
        LET done == call_handler(inv.handler, inv.payload, ext)
        IN  /\ done.raised
            /\ Len(trace) < 2 * MaxMsgs + 2
            /\ trace' = trace \o << Event("raise", inv.seq), Event("start", inv.seq) >>
            /\ effects' = Some([ seq |-> inv.seq, handler |-> inv.handler,
                                 payload |-> inv.payload, outcome |-> "raise",
                                 log |-> done.log ])
    /\ UNCHANGED << pubsubs, registrations, pc, message, termCause, inflight, nrecv,
                    lastPoll, sessionVars, fanVars, placeVars >>

\* mutant of HandlerRaise: no try/except around the await, the exception
\* of the handler leaves the while loop
HandlerRaise_propagates ==
    /\ \E inv \in inflight : \E ext \in Outcomes(inv.handler) :
        LET done == call_handler(inv.handler, inv.payload, ext)
        IN  /\ done.raised
            /\ inflight' = inflight \ { inv }
            /\ trace' = Append(trace, Event("raise", inv.seq))
            /\ effects' = Some([ seq |-> inv.seq, handler |-> inv.handler,
                                 payload |-> inv.payload, outcome |-> "raise",
                                 log |-> done.log ])
    /\ pc' = "terminated"
    /\ termCause' = "handler_error"
    /\ UNCHANGED << pubsubs, registrations, message, nrecv, lastPoll,
                    sessionVars, fanVars, placeVars >>

\* await handler(payload) raises: the bare except discards the exception
HandlerRaise ==
    /\ \E inv \in inflight : \E ext \in Outcomes(inv.handler) :
        LET done == call_handler(inv.handler, inv.payload, ext)
        IN  done.raised /\ finish(inv, "raise", done.log)
    /\ UNCHANGED << pubsubs, registrations, message, termCause, nrecv, lastPoll,
                    sessionVars, fanVars, placeVars >>

\* await asyncio.sleep(0.01) returns
SleepDone ==
    /\ pc = "sleep"
    /\ pc' = "poll"
    /\ UNCHANGED << pubsubs, registrations, message, termCause, inflight, trace, nrecv,
                    lastPoll, sessionVars, effects, fanVars, placeVars >>

\* mutant of Cancel: the except clause around the handler names Exception,
\* a cancellation that lands in a handler ends the loop
Cancel_propagates ==
    \/ /\ pc \in { "poll", "sleep" }
       /\ pc' = "terminated"
       /\ termCause' = "cancelled"
       /\ UNCHANGED << pubsubs, registrations, message, inflight, trace, nrecv, lastPoll,
                       sessionVars, effects, fanVars, placeVars >>
    \/ /\ pc = "handler"
       /\ \E inv \in inflight :
            /\ inv.seq = nrecv
            /\ reaches_await(inv.handler, inv.payload)
            /\ inflight' = inflight \ { inv }
            /\ trace' = Append(trace, Event("cancelled", inv.seq))
            /\ effects' = Some([ seq |-> inv.seq, handler |-> inv.handler,
                                 payload |-> inv.payload, outcome |-> "cancelled",
                                 log |-> << >> ])
       /\ pc' = "terminated"
       /\ termCause' = "cancelled"
       /\ UNCHANGED << pubsubs, registrations, message, nrecv, lastPoll,
                       sessionVars, fanVars, placeVars >>

\* the task created by initialize_pubsubs is cancelled (process shutdown):
\* CancelledError is raised at the await the task is suspended in; inside a
\* handler it is raised at the handler's await and the bare except takes it
Cancel ==
    \/ /\ pc \in { "poll", "sleep" }
       /\ pc' = "terminated"
       /\ termCause' = "cancelled"
       /\ UNCHANGED << pubsubs, registrations, message, inflight, trace, nrecv, lastPoll,
                       sessionVars, effects, fanVars, placeVars >>
    \/ /\ pc = "handler"
       /\ \E inv \in inflight :
            /\ inv.seq = nrecv
            /\ reaches_await(inv.handler, inv.payload)
            /\ finish(inv, "cancelled", << >>)
       /\ UNCHANGED << pubsubs, registrations, message, termCause, nrecv, lastPoll,
                       sessionVars, fanVars, placeVars >>

LoopNext ==
    \/ PollMessage
    \/ PollNone
    \/ PollTimeout
    \/ PollError
    \/ HandlerReturn
    \/ HandlerRaise
    \/ SleepDone
    \/ Cancel

\* the loop on a server where user 7 is online and unrestricted and the
\* publishers send the well-formed "7" and malformed texts
MalformedInit ==
    /\ pubsubs = ImportedRegistry
    /\ registrations = ImportedRegistrations
    /\ pc = "poll"
    /\ message = None
    /\ termCause = "none"
    /\ inflight = {}
    /\ trace = << >>
    /\ nrecv = 0
    /\ lastPoll = "none"
    /\ accounts = { 7 }
    /\ online = { 7 }
    /\ restrictedUsers = {}
    /\ effects = None
    /\ feed = MalformedPayloads \cup { << "7" >> }

(***************************************************************************)
(* Registration: the decorator register_pubsub applied while modules are   *)
(* imported, before the loop task exists.                                  *)
(***************************************************************************)
RegistryInit ==
    /\ pubsubs = EmptyRegistry
    /\ registrations = << >>
    /\ pc = "import"
    /\ message = None
    /\ termCause = "none"
    /\ inflight = {}
    /\ trace = << >>
    /\ nrecv = 0
    /\ lastPoll = "none"
    /\ accounts = {}
    /\ online = {}
    /\ restrictedUsers = {}
    /\ effects = None
    /\ feed = Payloads

\* @register_pubsub(channel) applied to handler
Register(channel, handler) ==
    /\ pc = "import"
    /\ Len(registrations) < MaxRegs
    /\ pubsubs' = register_pubsub(pubsubs, channel, handler)
    /\ registrations' = Append(registrations, [ channel |-> channel, handler |-> handler ])
    /\ UNCHANGED << pc, message, termCause, inflight, trace, nrecv, lastPoll,
                    sessionVars, effects, fanVars, placeVars >>

RegistryNext == \E channel \in Channels, handler \in Handlers : Register(channel, handler)

(***************************************************************************)
(* Performance fan-out: ScoreParams, PerformanceRequest and the responses  *)
(* of the external service.                                                *)
(***************************************************************************)
Modes == { 1, 6 }
AccValues == { None, Some(0), Some(98) }

\* dataclass ScoreParams
ScoreParams ==
    [ mode : Modes, mods : { Some(64) }, combo : { Some(150) }, acc : AccValues,
      nmiss : { Some(3) }, legacy_score : { None } ]

BeatmapIds == { 1234, 4321 }

\* what the service computes: {"data": {"stars": ..., "pp": ...}}
ServiceData == { [ stars |-> 1, pp |-> 10 ], [ stars |-> 2, pp |-> 20 ] }

NoData == [ stars |-> 0, pp |-> 0 ]

\* outcomes of self._http_client.get: an exception of the transport (a
\* timeout is one of them), or a response with a status and a body
Responses ==
    [ exc : { "ConnectError", "ReadTimeout" }, status : { 0 },
      wellformed : { FALSE }, data : { NoData } ]
    \cup [ exc : { "none" }, status : { 500 }, wellformed : { FALSE }, data : { NoData } ]
    \cup [ exc : { "none" }, status : { 200 }, wellformed : { FALSE }, data : { NoData } ]
    \cup [ exc : { "none" }, status : { 200 }, wellformed : { TRUE }, data : ServiceData ]

\* dataclass PerformanceRequest, built by Omajinai.calculate_performance_single
PerformanceRequest(bid, mode, mods, max_combo, accuracy, miss_count, legacy_score) ==
    [ beatmap_id |-> bid, mode |-> mode, mods |-> mods, max_combo |-> max_combo,
      accuracy |-> accuracy, miss_count |-> miss_count,
      legacy_score |-> legacy_score, passed_objects |-> None ]

RequestKeys ==
    { "beatmap_id", "mode", "mods", "max_combo", "accuracy", "miss_count",
      "legacy_score", "passed_objects" }

\* mutant of query_params: the falsy values are left out as well
\* ({k: v ... if v})
query_params_truthy(req) ==
    LET present == { k \in RequestKeys :
                        k \in { "beatmap_id", "mode" }
                            \/ (req[k] # None /\ req[k] # Some(0)) }
    IN  [ k \in present |->
            IF k = "mode" THEN req.mode % 4
            ELSE IF k = "beatmap_id" THEN req.beatmap_id
            ELSE req[k][1] ]

\* mutant of query_params: the mode is sent as it is
query_params_mode_as_is(req) ==
    LET present == { k \in RequestKeys :
                        k \in { "beatmap_id", "mode" } \/ req[k] # None }
    IN  [ k \in present |->
            IF k = "mode" THEN req.mode
            ELSE IF k = "beatmap_id" THEN req.beatmap_id
            ELSE req[k][1] ]

\* params = {k: v for k, v in vars(req).items() if v is not None}; params["mode"] %= 4
query_params(req) ==
    LET present == { k \in RequestKeys :
                        k \in { "beatmap_id", "mode" } \/ req[k] # None }
    IN  [ k \in present |->
            IF k = "mode" THEN req.mode % 4
            ELSE IF k = "beatmap_id" THEN req.beatmap_id
            ELSE req[k][1] ]

Zero == [ stars |-> 0, pp |-> 0 ]

\* mutant of make_performance_request: the status check is missing
make_performance_request_no_status_check(resp) ==
    IF resp.exc # "none"
    THEN [ raised |-> FALSE, data |-> Zero ]
    ELSE IF ~resp.wellformed
    THEN [ raised |-> TRUE, data |-> Zero ]
    ELSE [ raised |-> FALSE,
           data |-> [ stars |-> resp.data.stars, pp |-> resp.data.pp ] ]

\* mutant of make_performance_request: the except clause names the
\* connection errors only, a timeout escapes
make_performance_request_timeout_escapes(resp) ==
    IF resp.exc = "ReadTimeout"
    THEN [ raised |-> TRUE, data |-> Zero ]
    ELSE IF resp.exc # "none"
    THEN [ raised |-> FALSE, data |-> Zero ]
    ELSE IF resp.status # 200
    THEN [ raised |-> FALSE, data |-> Zero ]
    ELSE IF ~resp.wellformed
    THEN [ raised |-> TRUE, data |-> Zero ]
    ELSE [ raised |-> FALSE,
           data |-> [ stars |-> resp.data.stars, pp |-> resp.data.pp ] ]

\* Omajinai.__make_performance_request once the GET has ended with resp:
\* the dict it returns, or the exception it lets escape
make_performance_request(resp) ==
    IF resp.exc # "none"
    THEN [ raised |-> FALSE, data |-> Zero ]        \* except: return zeros
    ELSE IF resp.status # 200
    THEN [ raised |-> FALSE, data |-> Zero ]        \* status_code != 200
    ELSE IF ~resp.wellformed
    THEN [ raised |-> TRUE, data |-> Zero ]         \* resp.json() / data["data"] raises
    ELSE [ raised |-> FALSE,
           data |-> [ stars |-> resp.data.stars, pp |-> resp.data.pp ] ]

\* Omajinai.calculate_performance_single: PerformanceResult(stars, pp)
omajinai_calculate_performance_single(resp) ==
    LET d == make_performance_request(resp)
    IN  [ raised |-> d.raised,
          result |-> [ stars |-> d.data.stars, pp |-> d.data.pp ] ]

\* the dict the inner coroutine _ returns
score_result(resp) ==
    LET r == omajinai_calculate_performance_single(resp)
    IN  [ raised |-> r.raised,
          value |-> [ pp |-> r.result.pp, stars |-> r.result.stars ] ]

\* mutant of default_acc: only an unset accuracy is defaulted
default_acc_none_only(score) ==
    IF score.acc = None
    THEN [ score EXCEPT !.acc = Some(100) ]
    ELSE score

\* if not score.acc: score.acc = 100.0
default_acc(score) ==
    IF score.acc = None \/ score.acc = Some(0)
    THEN [ score EXCEPT !.acc = Some(100) ]
    ELSE score

(***************************************************************************)
(* calculate_performances: one task per score, joined by asyncio.gather.   *)
(***************************************************************************)
NewTask ==
    [ st |-> "created", resp |-> None, perf |-> None, result |-> None, sent |-> None,
      calls |-> 0 ]

Idx == 1 .. Len(scores)

FanIdle ==
    /\ scores = << >>
    /\ tasks = << >>
    /\ beatmap_id = 0
    /\ completed = << >>
    /\ fpc = "idle"
    /\ results = None
    /\ given = << >>
    /\ single = None
    /\ ret = None

FanInit ==
    /\ scores \in UNION { [ 1 .. n -> ScoreParams ] : n \in 0 .. MaxBatch }
    /\ tasks = << >>
    /\ beatmap_id \in BeatmapIds
    /\ completed = << >>
    /\ fpc = "called"
    /\ results = None
    /\ given = scores
    /\ single = None
    /\ ret = None

\* asyncio.gather(*[_(score) for score in scores]): one task per score
Gather ==
    /\ fpc = "called"
    /\ tasks' = [ i \in Idx |-> NewTask ]
    /\ fpc' = "gathering"
    /\ UNCHANGED << scores, beatmap_id, completed, results, given, single, ret, loopVars, placeVars >>

\* task i runs _ up to the await of the GET; tasks start in creation order
TaskStart(i) ==
    /\ tasks[i].st = "created"
    /\ \A j \in 1 .. i - 1 : tasks[j].st # "created"
    /\ LET score == default_acc(scores[i])
           req == PerformanceRequest(beatmap_id, score.mode, score.mods, score.combo,
                                     score.acc, score.nmiss, score.legacy_score)
       IN  /\ scores' = [ scores EXCEPT ![i] = score ]
           /\ tasks' = [ tasks EXCEPT ![i].st = "awaiting",
                                      ![i].sent = Some(query_params(req)),
                                      ![i].calls = @ + 1 ]
    /\ UNCHANGED << beatmap_id, completed, fpc, results, given, single, ret, loopVars, placeVars >>

\* mutant of TaskComplete: a GET that failed is issued once more
TaskComplete_retries(i) ==
    /\ tasks[i].st = "awaiting"
    /\ \E resp \in Responses :
        LET p == omajinai_calculate_performance_single(resp)
            r == score_result(resp)
        IN  IF (resp.exc # "none" \/ resp.status # 200) /\ tasks[i].calls < 2
            THEN /\ tasks' = [ tasks EXCEPT ![i].calls = @ + 1 ]
                 /\ completed' = completed
            ELSE /\ tasks' = [ tasks EXCEPT
                        ![i].st = IF r.raised THEN "raised" ELSE "done",
                        ![i].resp = Some(resp),
                        ![i].perf = IF p.raised THEN None ELSE Some(p.result),
                        ![i].result = IF r.raised THEN None ELSE Some(r.value) ]
                 /\ completed' = Append(completed, i)
    /\ UNCHANGED << scores, beatmap_id, fpc, results, given, single, ret, loopVars, placeVars >>

\* the GET of task i ends with resp; the task returns its dict or raises
TaskComplete(i) ==
    /\ tasks[i].st = "awaiting"
    /\ \E resp \in Responses :
        LET p == omajinai_calculate_performance_single(resp)
            r == score_result(resp)
        IN  tasks' = [ tasks EXCEPT
                ![i].st = IF r.raised THEN "raised" ELSE "done",
                ![i].resp = Some(resp),
                ![i].perf = IF p.raised THEN None ELSE Some(p.result),
                ![i].result = IF r.raised THEN None ELSE Some(r.value) ]
    /\ completed' = Append(completed, i)
    /\ UNCHANGED << scores, beatmap_id, fpc, results, given, single, ret, loopVars, placeVars >>

\* mutant of GatherReturn: the results are collected as the tasks end
\* (asyncio.as_completed)
GatherReturn_completion_order ==
    /\ fpc = "gathering"
    /\ \A i \in DOMAIN tasks : tasks[i].st = "done"
    /\ results' = Some([ k \in DOMAIN completed |-> tasks[completed[k]].result[1] ])
    /\ fpc' = "returned"
    /\ UNCHANGED << scores, tasks, beatmap_id, completed, given, single, ret, loopVars, placeVars >>

\* every task has returned: gather's result is the list of their results,
\* in the order of the awaitables
GatherReturn ==
    /\ fpc = "gathering"
    /\ \A i \in DOMAIN tasks : tasks[i].st = "done"
    /\ results' = Some([ i \in DOMAIN tasks |-> tasks[i].result[1] ])
    /\ fpc' = "returned"
    /\ UNCHANGED << scores, tasks, beatmap_id, completed, given, single, ret, loopVars, placeVars >>

\* a task has raised: gather (return_exceptions=False) hands that exception
\* to its awaiter at once; the other tasks are not cancelled. The callback
\* that wakes the awaiter is queued behind the first step of every task.
GatherRaise ==
    /\ fpc = "gathering"
    /\ \E i \in DOMAIN tasks : tasks[i].st = "raised"
    /\ \A i \in DOMAIN tasks : tasks[i].st # "created"
    /\ fpc' = "raised"
    /\ UNCHANGED << scores, tasks, beatmap_id, completed, results, given, single, ret, loopVars, placeVars >>

FanNext ==
    \/ Gather
    \/ \E i \in DOMAIN tasks : TaskStart(i)
    \/ \E i \in DOMAIN tasks : TaskComplete(i)
    \/ GatherReturn
    \/ GatherRaise

(***************************************************************************)
(* calculate_performance_single (usecase): the score, and with             *)
(* hypothetical a full-combo copy of it, through calculate_performances.   *)
(***************************************************************************)
\* mutant of hypothetical_score: the copy keeps the score's misses
hypothetical_score_keeps_nmiss(score) == [ score EXCEPT !.combo = None ]

\* replace(score, combo=None, nmiss=0)
hypothetical_score(score) == [ score EXCEPT !.combo = None, !.nmiss = Some(0) ]

\* mutant of single_scores: the variant is made by assigning to the score
\* itself, the list holds the same object twice
single_scores_in_place(score, hypothetical) ==
    IF hypothetical
    THEN << hypothetical_score(score), hypothetical_score(score) >>
    ELSE << score >>

\* scores = [score]; if hypothetical: scores.append(hypothetical_score)
single_scores(score, hypothetical) ==
    IF hypothetical THEN << score, hypothetical_score(score) >> ELSE << score >>

\* the scores calculate_performance_single is called with: mods may be
\* unset (None), as may the accuracy
SingleScoreParams ==
    [ mode : Modes, mods : { None, Some(64) }, combo : { Some(150) }, acc : AccValues,
      nmiss : { Some(3) }, legacy_score : { None } ]

\* calculate_performance_single has built its list and calls
\* calculate_performances
SingleInit ==
    /\ \E score \in SingleScoreParams, hypothetical \in BOOLEAN :
        /\ single = Some([ score |-> score, hypothetical |-> hypothetical ])
        /\ scores = single_scores(score, hypothetical)
    /\ given = scores
    /\ tasks = << >>
    /\ beatmap_id \in BeatmapIds
    /\ completed = << >>
    /\ fpc = "called"
    /\ results = None
    /\ ret = None

\* real = results[0]; hypo = results[1] if hypothetical else None; return
SingleReturn ==
    /\ single # None
    /\ fpc = "returned"
    /\ ret = None
    /\ LET real == results[1][1]
           hypo == IF single[1].hypothetical THEN Some(results[1][2]) ELSE None
       IN  ret' = Some([ pp |-> real.pp, stars |-> real.stars,
                         hypo_pp |-> IF hypo # None THEN Some(hypo[1].pp) ELSE None ])
    /\ UNCHANGED << scores, tasks, beatmap_id, completed, fpc, results, given, single,
                    loopVars, placeVars >>

SingleNext == FanNext \/ SingleReturn


(***************************************************************************)
(* Leaderboard placement: Score.calculate_placement.                       *)
(***************************************************************************)
\* class SubmissionStatus
FAILED == 0
SUBMITTED == 1
BEST == 2

\* GameMode.VANILLA_OSU and GameMode.RELAX_OSU (app/constants/gamemodes.py):
\* a mode is its base mode 0..3 plus 4 for relax
VANILLA_OSU == 0
RELAX_OSU == 4

Md5s == { "a", "b" }
PlacementModes == { VANILLA_OSU, RELAX_OSU }
MetricValues == { 1, 2 }

\* the users table: user 1 has privilege bit 0, user 2 (restricted) has not
UserIds == { 1, 2 }
UserPriv(u) == IF u = 1 THEN 3 ELSE 2

\* rows of the scores table, as far as the query reads them
ScoreRows ==
    [ map_md5 : Md5s, mode : PlacementModes, status : { FAILED, SUBMITTED, BEST },
      userid : UserIds, pp : MetricValues, score : MetricValues ]

\* a Score object, as far as calculate_placement reads it
ScoreObjects ==
    [ bmap_md5 : { "a" }, mode : PlacementModes,
      pp : MetricValues, score : MetricValues ]

\* u.priv & 1
priv_bit0(priv) == priv % 2 = 1

\* mutant of calculate_placement: the query compares with >= instead of >
calculate_placement_ge(s, rows) ==
    LET scoring_metric == IF s.mode >= RELAX_OSU THEN "pp" ELSE "score"
        score == IF s.mode >= RELAX_OSU THEN s.pp ELSE s.score
        num_better_scores ==
            Cardinality({ r \in rows :
                /\ r.map_md5 = s.bmap_md5
                /\ r.mode = s.mode
                /\ r.status = 2
                /\ priv_bit0(UserPriv(r.userid))
                /\ r[scoring_metric] >= score })
    IN  num_better_scores + 1

\* mutant of calculate_placement: the query counts the rows below the score
calculate_placement_counts_worse(s, rows) ==
    LET scoring_metric == IF s.mode >= RELAX_OSU THEN "pp" ELSE "score"
        score == IF s.mode >= RELAX_OSU THEN s.pp ELSE s.score
        num_better_scores ==
            Cardinality({ r \in rows :
                /\ r.map_md5 = s.bmap_md5
                /\ r.mode = s.mode
                /\ r.status = 2
                /\ priv_bit0(UserPriv(r.userid))
                /\ r[scoring_metric] < score })
    IN  num_better_scores + 1

\* mutant of calculate_placement: ties are broken by the user id
calculate_placement_tie_break(s, rows) ==
    LET scoring_metric == IF s.mode >= RELAX_OSU THEN "pp" ELSE "score"
        score == IF s.mode >= RELAX_OSU THEN s.pp ELSE s.score
        num_better_scores ==
            Cardinality({ r \in rows :
                /\ r.map_md5 = s.bmap_md5
                /\ r.mode = s.mode
                /\ r.status = 2
                /\ priv_bit0(UserPriv(r.userid))
                /\ \/ r[scoring_metric] > score
                   \/ r[scoring_metric] = score /\ r.userid < s.userid })
    IN  num_better_scores + 1

\* mutant of calculate_placement: pp is the metric for the modes strictly
\* above RELAX_OSU only
calculate_placement_mode_gt(s, rows) ==
    LET scoring_metric == IF s.mode > RELAX_OSU THEN "pp" ELSE "score"
        score == IF s.mode > RELAX_OSU THEN s.pp ELSE s.score
        num_better_scores ==
            Cardinality({ r \in rows :
                /\ r.map_md5 = s.bmap_md5
                /\ r.mode = s.mode
                /\ r.status = 2
                /\ priv_bit0(UserPriv(r.userid))
                /\ r[scoring_metric] > score })
    IN  num_better_scores + 1

\* mutant of calculate_placement: the query counts the rows of every
\* submission status
calculate_placement_any_status(s, rows) ==
    LET scoring_metric == IF s.mode >= RELAX_OSU THEN "pp" ELSE "score"
        score == IF s.mode >= RELAX_OSU THEN s.pp ELSE s.score
        num_better_scores ==
            Cardinality({ r \in rows :
                /\ r.map_md5 = s.bmap_md5
                /\ r.mode = s.mode
                /\ priv_bit0(UserPriv(r.userid))
                /\ r[scoring_metric] > score })
    IN  num_better_scores + 1

\* the metric and threshold calculate_placement chooses, the COUNT(*) of
\* its query, and its return value
calculate_placement(s, rows) ==
    LET scoring_metric == IF s.mode >= RELAX_OSU THEN "pp" ELSE "score"
        score == IF s.mode >= RELAX_OSU THEN s.pp ELSE s.score
        num_better_scores ==
            Cardinality({ r \in rows :
                /\ r.map_md5 = s.bmap_md5
                /\ r.mode = s.mode
                /\ r.status = 2
                /\ priv_bit0(UserPriv(r.userid))
                /\ r[scoring_metric] > score })
    IN  num_better_scores + 1

\* who holds a Score object built by from_sql
Holders == { "A", "B" }

NothingLoaded == [ h \in Holders |-> None ]

PlaceIdle ==
    /\ table = {}
    /\ self = None
    /\ rank = None
    /\ loaded = NothingLoaded
    /\ loading = NothingLoaded
    /\ stale = {}

\* the tables of at most n rows
RECURSIVE Tables(_)
Tables(n) ==
    IF n = 0 THEN { {} }
    ELSE LET smaller == Tables(n - 1)
         IN  smaller \cup { t \cup { r } : t \in smaller, r \in ScoreRows }

PlaceInit ==
    /\ table \in Tables(MaxScores)
    /\ self \in { Some(s) : s \in ScoreObjects }
    /\ rank = None
    /\ loaded = NothingLoaded
    /\ loading = NothingLoaded
    /\ stale = {}

\* await self.calculate_placement()
CalculatePlacement ==
    /\ self # None
    /\ rank = None
    /\ rank' = Some(calculate_placement(self[1], table))
    /\ UNCHANGED << table, self, loaded, loading, stale, loopVars, fanVars >>

PlaceNext == CalculatePlacement

\* the fields Score.from_sql copies from the row rec (its beatmap is found)
score_from_row(rec) ==
    [ bmap_md5 |-> rec.map_md5, mode |-> rec.mode, pp |-> rec.pp,
      score |-> rec.score, status |-> rec.status, userid |-> rec.userid ]

\* Score.from_sql: the Score object of a row, with s.rank set to its
\* placement against the table as it is
from_sql(rec, rows) ==
    LET s == score_from_row(rec)
    IN  [ bmap_md5 |-> s.bmap_md5, mode |-> s.mode, pp |-> s.pp, score |-> s.score,
          status |-> s.status, userid |-> s.userid,
          rank |-> calculate_placement(s, rows) ]

RankInit ==
    /\ table \in Tables(MaxScores)
    /\ self = None
    /\ rank = None
    /\ loaded = NothingLoaded
    /\ loading = NothingLoaded
    /\ stale = {}

\* holder h calls Score.from_sql for a persisted row
FromSql(h) ==
    /\ loaded[h] = None
    /\ \E rec \in table : loaded' = [ loaded EXCEPT ![h] = Some(from_sql(rec, table)) ]
    /\ UNCHANGED << table, self, rank, loading, stale, loopVars, fanVars >>

RankNext == \E h \in Holders : FromSql(h)

(***************************************************************************)
(* The scores table under writes: score submission (outside this code)     *)
(* inserts rows and takes the BEST status from rows, while from_sql calls  *)
(* fetch a row and then await the placement of its Score object.           *)
(***************************************************************************)
\* the rows written while placements are computed
StoreRows ==
    { r \in ScoreRows :
        r.map_md5 = "a" /\ r.status \in { SUBMITTED, BEST } /\ r.pp = r.score }

StoreInit ==
    /\ table = {}
    /\ self = None
    /\ rank = None
    /\ loaded = NothingLoaded
    /\ loading = NothingLoaded
    /\ stale = {}

\* the holders that have a placement at the moment of a write
Placed == { h \in Holders : loaded[h] # None }

\* a submission inserts the row r
Write(r) ==
    /\ r \notin table
    /\ Cardinality(table) < MaxScores
    /\ table' = table \cup { r }
    /\ stale' = Placed
    /\ UNCHANGED << self, rank, loaded, loading, loopVars, fanVars >>

\* a submission takes the BEST status from the row r
Demote(r) ==
    /\ r \in table
    /\ r.status = BEST
    /\ table' = (table \ { r }) \cup { [ r EXCEPT !.status = SUBMITTED ] }
    /\ stale' = Placed
    /\ UNCHANGED << self, rank, loaded, loading, loopVars, fanVars >>

\* Score.from_sql of holder h has fetched its row (lines 166-201)
FetchRow(h) ==
    /\ loaded[h] = None
    /\ loading[h] = None
    /\ \E rec \in table : loading' = [ loading EXCEPT ![h] = Some(rec) ]
    /\ UNCHANGED << table, self, rank, loaded, stale, loopVars, fanVars >>

\* mutant of PlaceLoaded: the placement of every Score object in memory is
\* brought up to date with the table
PlaceLoaded_refreshes_all(h) ==
    /\ loading[h] # None
    /\ loaded' = [ g \in Holders |->
                    IF g = h THEN Some(from_sql(loading[h][1], table))
                    ELSE IF loaded[g] = None THEN None
                    ELSE Some([ loaded[g][1] EXCEPT
                                !.rank = calculate_placement(loaded[g][1], table) ]) ]
    /\ loading' = [ loading EXCEPT ![h] = None ]
    /\ UNCHANGED << table, self, rank, stale, loopVars, fanVars >>

\* mutant of PlaceLoaded: a placement another holder has for the same
\* leaderboard and value is reused
PlaceLoaded_cached(h) ==
    /\ loading[h] # None
    /\ LET s == from_sql(loading[h][1], table)
           same == { g \in Holders :
                        /\ loaded[g] # None
                        /\ loaded[g][1].bmap_md5 = s.bmap_md5
                        /\ loaded[g][1].mode = s.mode
                        /\ loaded[g][1].pp = s.pp
                        /\ loaded[g][1].score = s.score }
       IN  loaded' = [ loaded EXCEPT ![h] =
                        IF same = {} THEN Some(s)
                        ELSE Some([ s EXCEPT !.rank = loaded[CHOOSE g \in same : TRUE][1].rank ]) ]
    /\ loading' = [ loading EXCEPT ![h] = None ]
    /\ UNCHANGED << table, self, rank, stale, loopVars, fanVars >>

\* s.rank = await s.calculate_placement() of holder h (lines 203-206): the
\* count is read from the table as it is now
PlaceLoaded(h) ==
    /\ loading[h] # None
    /\ loaded' = [ loaded EXCEPT ![h] = Some(from_sql(loading[h][1], table)) ]
    /\ loading' = [ loading EXCEPT ![h] = None ]
    /\ UNCHANGED << table, self, rank, stale, loopVars, fanVars >>

StoreNext ==
    \/ \E r \in StoreRows : Write(r)
    \/ \E r \in StoreRows : Demote(r)
    \/ \E h \in Holders : FetchRow(h)
    \/ \E h \in Holders : PlaceLoaded(h)

(***************************************************************************)
(* Specifications.                                                         *)
(***************************************************************************)
\* the dispatch loop alone
InitOfLoop == LoopInit /\ FanIdle /\ PlaceIdle
SpecLoop == InitOfLoop /\ [][LoopNext]_vars

\* one call of calculate_performances
InitOfFan == LoopIdle /\ FanInit /\ PlaceIdle
SpecFan == InitOfFan /\ [][FanNext]_vars

\* one call of calculate_placement against one state of the scores table
InitOfPlace == LoopIdle /\ FanIdle /\ PlaceInit
SpecPlace == InitOfPlace /\ [][PlaceNext]_vars

\* the dispatch loop fed with malformed payloads
InitOfMalformed == MalformedInit /\ FanIdle /\ PlaceIdle
SpecMalformed == InitOfMalformed /\ [][LoopNext]_vars

\* registrations at import, from the empty registry
InitOfRegistry == RegistryInit /\ FanIdle /\ PlaceIdle
SpecRegistry == InitOfRegistry /\ [][RegistryNext]_vars

\* one call of calculate_performance_single (usecase)
InitOfSingle == LoopIdle /\ SingleInit /\ PlaceIdle
SpecSingle == InitOfSingle /\ [][SingleNext]_vars

\* from_sql calls interleaved with writes to the scores table
InitOfStore == LoopIdle /\ FanIdle /\ StoreInit
SpecStore == InitOfStore /\ [][StoreNext]_vars

\* two Score objects loaded by from_sql against one state of the scores table
InitOfRank == LoopIdle /\ FanIdle /\ RankInit
SpecRank == InitOfRank /\ [][RankNext]_vars

(***************************************************************************)
(* Properties of the dispatch loop (SpecLoop).                             *)
(***************************************************************************)
\* the step appends an event of kind ev to the trace
Appends(ev) ==
    /\ Len(trace') = Len(trace) + 1
    /\ trace'[Len(trace')].ev = ev

\* the step is the receipt of a message
Receives == nrecv' = nrecv + 1

\* the received message, decoded
ChannelOf(m) == decode(m.channel)
DataOf(m) == decode(m.data)

\* the message has a channel of the registry with a handler
HasHandler(m) ==
    /\ ChannelOf(m).ok
    /\ ChannelOf(m).val \in DOMAIN pubsubs
    /\ pubsubs[ChannelOf(m).val] # NoHandler

\* C1: a handler that raises (any exception, a cancellation delivered to it
\* included) leaves the loop running: the exception is discarded and the
\* loop goes on to its delay; and whatever the number of failed invocations
\* before it, a decodable message received on a channel with a handler is
\* handed to the handler registered for that channel, with its payload.
C1_DispatchIsolation ==
    [][ /\ (Appends("raise") \/ Appends("cancelled"))
            => (pc' = "sleep" /\ termCause' = "none")
        /\ (Receives /\ HasHandler(message'[1]) /\ DataOf(message'[1]).ok)
            => /\ pc' = "handler"
               /\ \E inv \in inflight' :
                    /\ inv.seq = nrecv'
                    /\ inv.handler = pubsubs[ChannelOf(message'[1]).val]
                    /\ inv.payload = DataOf(message'[1]).val
      ]_vars

\* C1 witness: two invocations in a row have raised and the third message
\* is with its handler
C1_Witness ==
    /\ Len(trace) = 5
    /\ trace[2].ev = "raise"
    /\ trace[4].ev = "raise"
    /\ trace[5].ev = "start"
    /\ pc = "handler"
    /\ \E inv \in inflight : inv.seq = 3 /\ inv.handler = "notify"

\* C2 (as claimed): the loop task ends only by shutdown (cancellation),
\* never by an error of the poll or of the decoding of a message.
C2_TerminatesOnlyByShutdown ==
    pc = "terminated" => termCause = "cancelled"

\* C8: at most one handler invocation is in flight, invocations start in
\* the order the messages were received, and an invocation starts only
\* after the one before it has returned or raised.
C8_SequentialHandlers ==
    /\ Cardinality(inflight) <= 1
    /\ \A k \in 2 .. Len(trace) :
        trace[k].ev = "start" =>
            /\ trace[k - 1].ev # "start"
            /\ trace[k - 1].seq < trace[k].seq
    /\ \A k \in 1 .. Len(trace) :
        trace[k].ev # "start" =>
            /\ k > 1
            /\ trace[k - 1] = Event("start", trace[k].seq)

\* C8 witness: a second invocation runs after the first has ended, while
\* nothing else is in flight
C8_Witness ==
    /\ Len(trace) = 3
    /\ trace[2].ev = "return"
    /\ trace[3].ev = "start"
    /\ Cardinality(inflight) = 1

\* C9 (as claimed): the receipt of a message whose channel has no handler
\* in the registry invokes no handler, raises nothing and leaves the loop
\* on its way to the next iteration.
C9_UnknownChannelNoOp ==
    [][ (Receives /\ ChannelOf(message'[1]).ok /\ ~HasHandler(message'[1]))
            => /\ trace' = trace
               /\ inflight' = inflight
               /\ termCause' = "none"
               /\ pc' = "sleep"
      ]_vars

(***************************************************************************)
(* Properties of the fan-out (SpecFan).                                    *)
(***************************************************************************)
\* the response of task i, once its external call has ended
Ended(i) == tasks[i].resp # None
RespOf(i) == tasks[i].resp[1]

\* the external service failed: transport error, timeout or non-200 status
ServiceFailed(resp) == resp.exc # "none" \/ resp.status # 200
IsTimeout(resp) == resp.exc = "ReadTimeout"

\* the external service answered 200 with the expected body
ServiceAnswered(resp) == resp.exc = "none" /\ resp.status = 200 /\ resp.wellformed

ZeroResult == [ pp |-> 0, stars |-> 0 ]

\* C3 (as claimed): calculate_performances never raises, and no request of
\* the batch ends with an exception, whatever the service does.
C3_FanOutNeverRaises ==
    /\ fpc # "raised"
    /\ \A i \in DOMAIN tasks : tasks[i].st # "raised"

\* C4: when calculate_performances returns, it returns as many results as
\* there were requests and results[i] is the result of the task of
\* requests[i], whatever the order in which the calls ended.
C4_LengthAndOrder ==
    fpc = "returned" =>
        /\ results # None
        /\ Len(results[1]) = Len(scores)
        /\ \A i \in 1 .. Len(scores) : tasks[i].result = Some(results[1][i])

\* C4 witness: a batch of two whose second call ended first has returned
\* two different results
C4_Witness ==
    /\ fpc = "returned"
    /\ Len(scores) = 2
    /\ completed = << 2, 1 >>
    /\ results[1][1] # results[1][2]

\* C5: a request for which the service failed never raises; a batch in
\* which every call failed or was answered does not raise; and in the
\* returned results a failed request has pp 0 and stars 0 while an answered
\* one has exactly the pp and stars of its own response.
C5_FailureIsolation ==
    /\ \A i \in DOMAIN tasks :
        (Ended(i) /\ ServiceFailed(RespOf(i))) => tasks[i].st = "done"
    /\ (\A i \in DOMAIN tasks :
            Ended(i) => (ServiceFailed(RespOf(i)) \/ ServiceAnswered(RespOf(i))))
        => fpc # "raised"
    /\ fpc = "returned" =>
        \A i \in DOMAIN tasks :
            /\ ServiceFailed(RespOf(i)) => results[1][i] = ZeroResult
            /\ ServiceAnswered(RespOf(i)) =>
                results[1][i] = [ pp |-> RespOf(i).data.pp,
                                  stars |-> RespOf(i).data.stars ]

\* C5 witness: request 1 failed, request 2 was answered, and the batch has
\* returned the zero result and the answer
C5_Witness ==
    /\ fpc = "returned"
    /\ Len(scores) = 2
    /\ ServiceFailed(RespOf(1))
    /\ ServiceAnswered(RespOf(2))
    /\ results[1] = << ZeroResult, [ pp |-> 20, stars |-> 2 ] >>

\* C6: a call of Omajinai.calculate_performance_single whose GET ended in
\* a transport error, a timeout or a non-200 status has returned
\* PerformanceResult(stars=0.0, pp=0.0); a timeout gives what any other
\* failure gives.
C6_SingleCallZeroOnFailure ==
    \A i \in DOMAIN tasks :
        (Ended(i) /\ ServiceFailed(RespOf(i))) =>
            /\ tasks[i].st = "done"
            /\ tasks[i].perf = Some([ stars |-> 0, pp |-> 0 ])

\* C6 witness: a call has timed out and has returned
C6_Witness ==
    \E i \in DOMAIN tasks :
        /\ Ended(i)
        /\ IsTimeout(RespOf(i))
        /\ tasks[i].st = "done"
        /\ tasks[i].perf # None

\* C7 (as claimed): calculate_performances has returned or raised only
\* when the external call of every request of the batch has ended.
C7_BatchJoin ==
    fpc \in { "returned", "raised" } =>
        \A i \in DOMAIN tasks : tasks[i].st \in { "done", "raised" }

(***************************************************************************)
(* Properties of the placement (SpecPlace).                                *)
(***************************************************************************)
\* the rows the claim counts, for the comparison metric m
EligibleBetter(s, rows, m) ==
    { r \in rows :
        /\ r.map_md5 = s.bmap_md5
        /\ r.mode = s.mode
        /\ r.status = BEST
        /\ UserPriv(r.userid) % 2 = 1
        /\ r[m] > s[m] }

\* C10: calculate_placement returns an integer >= 1 that is 1 + the number
\* of rows with the same beatmap md5, the same mode, status BEST, an owner
\* with privilege bit 0 and a comparison metric (pp or score) strictly
\* above the score's own value of that metric.
C10_PlacementFormula ==
    rank # None =>
        /\ rank[1] \in Nat
        /\ rank[1] >= 1
        /\ \E m \in { "pp", "score" } :
            rank[1] = 1 + Cardinality(EligibleBetter(self[1], table, m))

\* C10 witness: a placement of 2 over a table of two rows of which one is
\* above the score without counting (it is not BEST)
C10_Witness ==
    /\ rank = Some(2)
    /\ Cardinality(table) = 2
    /\ \E r \in table :
        /\ r.map_md5 = self[1].bmap_md5
        /\ r.mode = self[1].mode
        /\ r.status # BEST
        /\ r.pp > self[1].pp
        /\ r.score > self[1].score

(***************************************************************************)
(* Properties of the placements of loaded scores (SpecRank).               *)
(***************************************************************************)
\* the value of a score under the scoring metric of its mode
MetricValue(s) == IF s.mode >= RELAX_OSU THEN s.pp ELSE s.score

\* BEST and owned by a user with privilege bit 0
OnLeaderboard(s) == s.status = BEST /\ UserPriv(s.userid) % 2 = 1

SameBoard(a, b) == a.bmap_md5 = b.bmap_md5 /\ a.mode = b.mode

\* C11: of two persisted scores that are BEST, privilege-eligible and on
\* the same beatmap and mode, the one with the strictly greater value of
\* the mode's metric has the strictly smaller placement, both computed
\* against the same table.
C11_RankingMonotone ==
    \A g, h \in Holders :
        (loaded[g] # None /\ loaded[h] # None) =>
            LET a == loaded[g][1]
                b == loaded[h][1]
            IN  (/\ OnLeaderboard(a) /\ OnLeaderboard(b)
                 /\ SameBoard(a, b)
                 /\ MetricValue(a) > MetricValue(b))
                    => a.rank < b.rank

\* C11 witness: A is above B on the same leaderboard, placed 1 and 2
C11_Witness ==
    /\ loaded["A"] # None
    /\ loaded["B"] # None
    /\ OnLeaderboard(loaded["A"][1])
    /\ OnLeaderboard(loaded["B"][1])
    /\ SameBoard(loaded["A"][1], loaded["B"][1])
    /\ MetricValue(loaded["A"][1]) > MetricValue(loaded["B"][1])
    /\ loaded["A"][1].rank = 1
    /\ loaded["B"][1].rank = 2

\* C12: two scores on the same beatmap and mode with equal values of the
\* mode's metric have equal placements against the same table.
C12_TiesShareRank ==
    \A g, h \in Holders :
        (loaded[g] # None /\ loaded[h] # None) =>
            LET a == loaded[g][1]
                b == loaded[h][1]
            IN  (SameBoard(a, b) /\ MetricValue(a) = MetricValue(b))
                    => a.rank = b.rank

\* C12 witness: two different rows of two users tie on a leaderboard
C12_Witness ==
    /\ loaded["A"] # None
    /\ loaded["B"] # None
    /\ loaded["A"][1].userid # loaded["B"][1].userid
    /\ loaded["A"][1].status = BEST
    /\ loaded["B"][1].status = BEST
    /\ SameBoard(loaded["A"][1], loaded["B"][1])
    /\ MetricValue(loaded["A"][1]) = MetricValue(loaded["B"][1])
    /\ loaded["A"][1].rank = loaded["B"][1].rank

(***************************************************************************)
(* Properties of the requests sent to the service (SpecFan, SpecSingle).   *)
(***************************************************************************)
\* the query parameters task i sent
SentOf(i) == tasks[i].sent[1]

Sent(i) == i \in DOMAIN tasks /\ tasks[i].sent # None

\* C13: the mode sent to the external service is the request's mode
\* modulo 4 and lies in 0..3.
C13_ModeReduction ==
    \A i \in DOMAIN tasks :
        Sent(i) =>
            /\ SentOf(i).mode \in 0 .. 3
            /\ \E q \in 0 .. 3 : given[i].mode = 4 * q + SentOf(i).mode

\* C13 witness: a request of mode 6 has been sent as mode 2
C13_Witness ==
    \E i \in DOMAIN tasks :
        Sent(i) /\ given[i].mode = 6 /\ SentOf(i).mode = 2

\* C14: the accuracy sent is 100 when the request's acc is None or 0, and
\* the request's own acc otherwise.
C14_AccuracyDefault ==
    \A i \in DOMAIN tasks :
        Sent(i) =>
            /\ "accuracy" \in DOMAIN SentOf(i)
            /\ (given[i].acc = None \/ given[i].acc = Some(0))
                    => SentOf(i).accuracy = 100
            /\ (given[i].acc # None /\ given[i].acc # Some(0))
                    => SentOf(i).accuracy = given[i].acc[1]

\* C14 witness: a batch whose first request had acc 0 and whose second had
\* acc 98 has sent 100 and 98
C14_Witness ==
    /\ Len(given) = 2
    /\ given[1].acc = Some(0)
    /\ given[2].acc = Some(98)
    /\ Sent(1) /\ Sent(2)
    /\ SentOf(1).accuracy = 100
    /\ SentOf(2).accuracy = 98

\* the keys of the query other than the combo and the misses
OtherKeys == RequestKeys \ { "max_combo", "miss_count" }

\* C15: when calculate_performance_single returns, with hypothetical it has
\* issued exactly two requests, the first with the score's own combo and
\* misses, the second without a combo and with 0 misses and equal to the
\* first in every other field, and it returns (pp of the first, stars of
\* the first, pp of the second); without hypothetical it has issued exactly
\* one request and the third component is None.
C15_Hypothetical ==
    ret # None =>
        LET score == single[1].score
            r == ret[1]
        IN  /\ Sent(1)
            /\ SentOf(1).max_combo = score.combo[1]
            /\ SentOf(1).miss_count = score.nmiss[1]
            /\ score.mods # None => SentOf(1).mods = score.mods[1]
            /\ SentOf(1).mode = score.mode % 4
            /\ SentOf(1).accuracy = default_acc(score).acc[1]
            /\ SentOf(1).beatmap_id = beatmap_id
            /\ r.pp = tasks[1].perf[1].pp
            /\ r.stars = tasks[1].perf[1].stars
            /\ single[1].hypothetical =>
                    /\ Len(tasks) = 2
                    /\ Sent(2)
                    /\ "max_combo" \notin DOMAIN SentOf(2)
                    /\ SentOf(2).miss_count = 0
                    /\ \A k \in OtherKeys :
                        /\ k \in DOMAIN SentOf(2) <=> k \in DOMAIN SentOf(1)
                        /\ k \in DOMAIN SentOf(1) => SentOf(2)[k] = SentOf(1)[k]
                    /\ r.hypo_pp = Some(tasks[2].perf[1].pp)
            /\ ~single[1].hypothetical =>
                    /\ Len(tasks) = 1
                    /\ r.hypo_pp = None

\* C15 witness: a hypothetical call has returned a hypothetical pp that
\* differs from the real one
C15_Witness ==
    /\ ret # None
    /\ single[1].hypothetical
    /\ ret[1].pp = 10
    /\ ret[1].hypo_pp = Some(20)

(***************************************************************************)
(* Properties of the handler registry (SpecRegistry).                      *)
(***************************************************************************)
\* the handler of the latest registration of channel c in regs, NoHandler
\* when there is none
LastRegistered(regs, c) ==
    LET at == { i \in DOMAIN regs : regs[i].channel = c }
    IN  IF at = {} THEN NoHandler
        ELSE regs[CHOOSE i \in at : \A j \in at : j <= i].handler

\* this step is a registration of a channel other than c
RegistersOther(c) ==
    /\ Len(registrations') = Len(registrations) + 1
    /\ registrations'[Len(registrations')].channel # c

\* C16: after any sequence of registrations, the lookup of a channel yields
\* the handler of the most recent registration of that channel, or none if
\* the channel was never registered (a value in every case, never an
\* exception), and a registration leaves the lookup of every other channel
\* as it was.
C16_LastWriteWins ==
    /\ [](\A c \in Channels :
            /\ lookup(pubsubs, c) \in Handlers \cup { NoHandler }
            /\ lookup(pubsubs, c) = LastRegistered(registrations, c))
    /\ [][\A c \in Channels :
            RegistersOther(c) => lookup(pubsubs', c) = lookup(pubsubs, c)]_vars

\* C16 witness: a channel was registered, then another one, then the first
\* again with another handler; the first stands for the second handler,
\* the other keeps its own and a third channel has none
C16_Witness ==
    /\ Len(registrations) = 3
    /\ registrations[1].channel = registrations[3].channel
    /\ registrations[1].handler # registrations[3].handler
    /\ registrations[2].channel # registrations[1].channel
    /\ lookup(pubsubs, registrations[1].channel) = registrations[3].handler
    /\ lookup(pubsubs, registrations[2].channel) = registrations[2].handler
    /\ lookup(pubsubs, UnregisteredChannel) = NoHandler
    /\ registrations[1].channel # UnregisteredChannel
    /\ registrations[2].channel # UnregisteredChannel

(***************************************************************************)
(* Properties of the handlers' effects and of the loop's delay (SpecLoop). *)
(***************************************************************************)
\* the invocation that ended last
Last == effects[1]

\* the user id a "<user id>|<text>" payload names
UserOf(payload) == int(split(payload, "|")[1]).val

\* the text after the separator of a "<user id>|<text>" payload
TextOf(payload) == split(payload, "|")[2]

\* the payload has the form "<user id>|<text>"
TwoParts(payload) == Len(split(payload, "|")) = 2 /\ int(split(payload, "|")[1]).ok

\* C17 (as claimed): when a restrict invocation for a resolvable user has
\* finished, that user's account is restricted.
C17_RestrictCarriedOut ==
    (/\ effects # None
     /\ Last.handler = "restrict"
     /\ Last.outcome = "return"
     /\ TwoParts(Last.payload)
     /\ UserOf(Last.payload) \in accounts)
        => UserOf(Last.payload) \in restrictedUsers

\* C18 (as claimed): the loop never goes to a poll except from the delay,
\* whatever the iteration before did.
C18_DelayEveryIteration == [][pc' = "poll" => pc = "sleep"]_vars

\* C18 (amended): the loop goes to a poll from the delay, or straight from
\* a poll that ended in a TimeoutError; a poll that ended otherwise and did
\* not end the loop is followed by a handler invocation or by the delay,
\* and a handler invocation that ended in any way by the delay.
C18_DelayUnlessTimeout ==
    [][/\ pc' = "poll" => (pc = "sleep" \/ (pc = "poll" /\ lastPoll' = "timeout"))
       /\ (pc = "poll" /\ pc' # "terminated" /\ lastPoll' # "timeout")
            => pc' \in { "handler", "sleep" }
       /\ (pc = "handler" /\ pc' # "handler") => pc' = "sleep"]_vars

\* C18 witness: a handler raised, the loop took its delay and polled, the
\* poll ended in a TimeoutError and the loop polls again
C18_Witness ==
    /\ pc = "poll"
    /\ lastPoll = "timeout"
    /\ trace # << >>
    /\ trace[Len(trace)].ev = "raise"

\* C19: a refresh_stats invocation for an online player that returns has
\* reloaded that player's stats and then, if and only if the player is not
\* restricted, enqueued the user-stats packet to the player directory; no
\* refresh_stats invocation enqueues anything about a restricted player.
C19_RefreshStats ==
    (effects # None /\ Last.handler = "refresh_stats") =>
        /\ (/\ Last.outcome = "return"
            /\ int(Last.payload).ok
            /\ int(Last.payload).val \in online)
                => LET p == int(Last.payload).val
                   IN  /\ Len(Last.log) >= 1
                       /\ Last.log[1] = Ev("stats_from_sql_full", p, "", << >>)
                       /\ p \notin restrictedUsers =>
                            /\ Len(Last.log) = 2
                            /\ Last.log[2] = Ev("players.enqueue", p, "user_stats", << >>)
                       /\ p \in restrictedUsers => Len(Last.log) = 1
        /\ \A i \in DOMAIN Last.log :
                Last.log[i].op = "players.enqueue" => Last.log[i].id \notin restrictedUsers

\* C19 witness: a refresh_stats invocation for an online, restricted player
\* has returned having reloaded the stats only
C19_Witness ==
    /\ effects # None
    /\ Last.handler = "refresh_stats"
    /\ Last.outcome = "return"
    /\ 7 \in online
    /\ 7 \in restrictedUsers
    /\ Last.log = << Ev("stats_from_sql_full", 7, "", << >>) >>

\* the step ends the notify invocation inv
NotifyEnds(inv) ==
    /\ inv \in inflight
    /\ inv \notin inflight'
    /\ inv.handler = "notify"
    /\ effects' # None
    /\ effects'[1].seq = inv.seq

\* C20: a notify invocation with payload "<user id>|<message>" enqueues
\* exactly one notification with that message to that user when the user
\* is online; when the user is not online it enqueues nothing and the loop
\* goes on to its delay.
C20_Notify ==
    [][\A inv \in inflight :
        (NotifyEnds(inv) /\ TwoParts(inv.payload)) =>
            /\ UserOf(inv.payload) \in online =>
                    effects'[1].log =
                        << Ev("player.enqueue", UserOf(inv.payload), "notification",
                              TextOf(inv.payload)) >>
            /\ UserOf(inv.payload) \notin online =>
                    /\ effects'[1].log = << >>
                    /\ pc' = "sleep"
                    /\ termCause' = "none"]_vars

\* C20 witness: a notify invocation for a user who is not online has ended,
\* nothing was enqueued and the loop is at its delay
C20_Witness ==
    /\ effects # None
    /\ Last.handler = "notify"
    /\ Last.seq = nrecv
    /\ TwoParts(Last.payload)
    /\ UserOf(Last.payload) \notin online
    /\ Last.log = << >>
    /\ pc = "sleep"
    /\ termCause = "none"

(***************************************************************************)
(* Further properties of the dispatch loop (SpecLoop).                     *)
(***************************************************************************)
\* the positions of the trace where the handler of message seq was started
StartsOf(seq) == { i \in DOMAIN trace : trace[i] = Event("start", seq) }

\* the received message decodes, channel and payload
Decodes(m) == ChannelOf(m).ok /\ DataOf(m).ok

\* C21: every received message that decodes causes exactly one invocation
\* of the handler of its channel, with its decoded payload, at the moment
\* it is received when a handler is registered, and none otherwise; no
\* invocation is ever started at another moment or for the same message
\* again, whatever the outcome of the first. (A message that does not
\* decode has no decoded payload; it starts no invocation.)
C21_ConsumedOnce ==
    /\ [](\A i \in DOMAIN trace :
            /\ trace[i].seq \in 1 .. nrecv
            /\ Cardinality(StartsOf(trace[i].seq)) = 1)
    /\ [][/\ Appends("start") => (Receives /\ trace'[Len(trace')].seq = nrecv')
          /\ Len(trace') <= Len(trace) + 1
          /\ (Receives /\ Decodes(message'[1]) /\ HasHandler(message'[1]))
                => /\ Appends("start")
                   /\ inflight' = inflight \cup
                        { [ seq |-> nrecv',
                            handler |-> pubsubs[ChannelOf(message'[1]).val],
                            payload |-> DataOf(message'[1]).val ] }
          /\ (Receives /\ ~(Decodes(message'[1]) /\ HasHandler(message'[1])))
                => (trace' = trace /\ inflight' = inflight)
         ]_vars

\* C21 witness: the invocation for the first message raised, two more
\* messages have been received since, and the first was started once
C21_Witness ==
    /\ nrecv = 3
    /\ Len(trace) >= 2
    /\ trace[1] = Event("start", 1)
    /\ trace[2] = Event("raise", 1)
    /\ StartsOf(1) = { 1 }
    /\ pc = "poll"

(***************************************************************************)
(* Further properties of the placement (SpecPlace).                        *)
(***************************************************************************)
\* the metric the claim assigns to a mode
ModeMetric(mode) == IF mode >= RELAX_OSU THEN "pp" ELSE "score"

\* C22: calculate_placement counts by pp, against the score's own pp, when
\* the score's mode is >= RELAX_OSU, and by score, against the score's own
\* score, for every other mode.
C22_MetricSelection ==
    rank # None =>
        rank[1] = 1 + Cardinality(EligibleBetter(self[1], table, ModeMetric(self[1].mode)))

\* C22 witness: a score of mode RELAX_OSU placed second behind a row with
\* more pp and less score, where the count by score would have placed it
\* first
C22_Witness ==
    /\ rank = Some(2)
    /\ self[1].mode = RELAX_OSU
    /\ EligibleBetter(self[1], table, "score") = {}
    /\ \E r \in EligibleBetter(self[1], table, "pp") : r.score < self[1].score

(***************************************************************************)
(* Further properties of the requests (SpecSingle, SpecFan).               *)
(***************************************************************************)
\* the PerformanceRequest made for scores[i] (whose acc has been defaulted
\* by the time the request is made)
RequestOf(i) ==
    PerformanceRequest(beatmap_id, scores[i].mode, scores[i].mods, scores[i].combo,
                       scores[i].acc, scores[i].nmiss, scores[i].legacy_score)

\* C23: the parameters sent are exactly the fields of the request that are
\* not None, each with the field's value and mode reduced modulo 4: an
\* unset max_combo, mods or passed_objects is left out, a field of value 0
\* is sent.
C23_QueryParams ==
    \A i \in DOMAIN tasks :
        Sent(i) =>
            /\ DOMAIN SentOf(i) =
                    { "beatmap_id", "mode" }
                        \cup { k \in RequestKeys \ { "beatmap_id", "mode" } :
                                    RequestOf(i)[k] # None }
            /\ SentOf(i).beatmap_id = RequestOf(i).beatmap_id
            /\ SentOf(i).mode = RequestOf(i).mode % 4
            /\ \A k \in DOMAIN SentOf(i) \ { "beatmap_id", "mode" } :
                    SentOf(i)[k] = RequestOf(i)[k][1]
            /\ "passed_objects" \notin DOMAIN SentOf(i)
            /\ (scores[i].nmiss = Some(0)) =>
                    ("miss_count" \in DOMAIN SentOf(i) /\ SentOf(i).miss_count = 0)

\* C23 witness: the hypothetical request of a score without mods has been
\* sent with miss_count 0 and without max_combo, mods and passed_objects
C23_Witness ==
    /\ Sent(2)
    /\ single # None
    /\ single[1].score.mods = None
    /\ DOMAIN SentOf(2) = { "beatmap_id", "mode", "accuracy", "miss_count" }
    /\ SentOf(2).miss_count = 0

(***************************************************************************)
(* Properties of placements under writes (SpecStore).                      *)
(***************************************************************************)
\* the placement the table as it is now gives the Score object s
PlacementNow(s) == 1 + Cardinality(EligibleBetter(s, table, ModeMetric(s.mode)))

\* C24: a placement computation changes no row of the table and no field
\* the Score object got from its row; the value is stored in the rank of
\* the Score object from_sql builds and nowhere else, and a rank once
\* stored stays as it is, whatever is written to the table afterwards.
C24_ReadOnly ==
    [][/\ (loaded' # loaded \/ loading' # loading) => table' = table
       /\ \A h \in Holders :
            /\ loaded[h] # None => loaded'[h] = loaded[h]
            /\ (loaded[h] = None /\ loaded'[h] # None) =>
                    /\ loading[h] # None
                    /\ LET row == score_from_row(loading[h][1])
                       IN  \A f \in DOMAIN row : loaded'[h][1][f] = row[f]
                    /\ loaded'[h][1].rank = PlacementNow(loaded'[h][1])
      ]_vars

\* C24 witness: a Score object holds placement 1 although the table has
\* since got a better eligible row, against which it would be placed 2
C24_Witness ==
    /\ loaded["A"] # None
    /\ loaded["A"][1].rank = 1
    /\ PlacementNow(loaded["A"][1]) = 2
    /\ "A" \in stale

\* C25: whatever the interleaving of writes and placement computations, a
\* computation that reads after the last write yields 1 + the number of
\* eligible strictly better rows of the table as it then stands, so that
\* all such computations for one score agree.
C25_Convergence ==
    /\ \A h \in Holders :
        (loaded[h] # None /\ h \notin stale) =>
            loaded[h][1].rank = PlacementNow(loaded[h][1])
    /\ \A g, h \in Holders :
        (/\ loaded[g] # None /\ loaded[h] # None
         /\ g \notin stale /\ h \notin stale
         /\ SameBoard(loaded[g][1], loaded[h][1])
         /\ MetricValue(loaded[g][1]) = MetricValue(loaded[h][1]))
            => loaded[g][1].rank = loaded[h][1].rank

\* C25 witness: holder A placed a score first before a better row was
\* written; holder B, which had fetched the same row before that write,
\* read its count after it and placed the score second
C25_Witness ==
    /\ loaded["A"] # None
    /\ loaded["B"] # None
    /\ "A" \in stale
    /\ "B" \notin stale
    /\ loaded["A"][1].rank = 1
    /\ loaded["B"][1].rank = 2
    /\ SameBoard(loaded["A"][1], loaded["B"][1])
    /\ MetricValue(loaded["A"][1]) = MetricValue(loaded["B"][1])
    /\ loaded["A"][1].userid = loaded["B"][1].userid
    /\ PlacementNow(loaded["B"][1]) = 2

(***************************************************************************)
(* Further properties of the fan-out (SpecFan).                            *)
(***************************************************************************)
\* C26 (as claimed): calculate_performances ends by returning to its
\* caller, and once it has ended no external call of the batch is still
\* awaited.
C26_BatchTerminates ==
    /\ fpc # "raised"
    /\ fpc \in { "returned", "raised" } =>
            \A i \in DOMAIN tasks : tasks[i].st # "awaiting"

(***************************************************************************)
(* Properties of the handlers on malformed payloads (SpecMalformed).       *)
(***************************************************************************)
\* the number of separators in a payload
Pipes(payload) == Cardinality({ i \in DOMAIN payload : payload[i] = "|" })

\* the payload is not "<decimal id>|<text without separator>"
Malformed(payload) ==
    \/ Pipes(payload) # 1
    \/ ~int(split(payload, "|")[1]).ok

\* the step ends the invocation inv
Ends(inv) ==
    /\ inv \in inflight
    /\ inv \notin inflight'
    /\ effects' # None
    /\ effects'[1].seq = inv.seq

\* C27: a restrict or notify invocation whose payload has no or more than
\* one separator, or an id part that is no decimal number, restricts nobody
\* and notifies nobody, and the loop goes on to its delay.
C27_MalformedHarmless ==
    [][\A inv \in inflight :
        (/\ Ends(inv)
         /\ inv.handler \in { "restrict", "notify" }
         /\ Malformed(inv.payload))
            => /\ effects'[1].log = << >>
               /\ restrictedUsers' = restrictedUsers
               /\ pc' = "sleep"
               /\ termCause' = "none"]_vars

\* C27 witness: notify was invoked with "7|h|i" for the online user 7 and
\* has ended without a notification, the loop being at its delay
C27_Witness ==
    /\ effects # None
    /\ Last.handler = "notify"
    /\ Last.payload = << "7", "|", "h", "|", "i" >>
    /\ Last.seq = nrecv
    /\ 7 \in online
    /\ Last.log = << >>
    /\ Last.outcome = "raise"
    /\ pc = "sleep"

(***************************************************************************)
(* Properties of the caller's ScoreParams objects (SpecSingle).            *)
(***************************************************************************)
FrameFields == { "mode", "mods", "combo", "nmiss", "legacy_score" }

Falsy(acc) == acc = None \/ acc = Some(0)

\* C28: at every moment of a call, each ScoreParams object handed to
\* calculate_performances has the mode, mods, combo, nmiss and legacy_score
\* it was handed in with, and its acc is the one it had or, if that was
\* falsy, 100; the score given to calculate_performance_single keeps its
\* combo and nmiss also when a hypothetical variant is computed.
C28_InputFrame ==
    /\ Len(scores) = Len(given)
    /\ \A i \in DOMAIN scores :
        /\ \A f \in FrameFields : scores[i][f] = given[i][f]
        /\ \/ scores[i].acc = given[i].acc
           \/ Falsy(given[i].acc) /\ scores[i].acc = Some(100)
    /\ single # None =>
        /\ \A f \in FrameFields : scores[1][f] = single[1].score[f]
        /\ \/ scores[1].acc = single[1].score.acc
           \/ Falsy(single[1].score.acc) /\ scores[1].acc = Some(100)

\* C28 witness: a hypothetical call for a score without acc has returned;
\* the score has acc 100 and its combo and misses, the variant has neither
C28_Witness ==
    /\ ret # None
    /\ single[1].hypothetical
    /\ single[1].score.acc = None
    /\ scores[1].acc = Some(100)
    /\ scores[1].combo = Some(150)
    /\ scores[1].nmiss = Some(3)
    /\ scores[2].combo = None
    /\ scores[2].nmiss = Some(0)

(***************************************************************************)
(* Cancellation of the loop task (SpecLoop) and the number of external     *)
(* calls of a batch (SpecFan).                                             *)
(***************************************************************************)
\* the step ends the loop task by a cancellation
EndsByCancellation == termCause # "cancelled" /\ termCause' = "cancelled"

\* C29: a cancellation ends the loop task only when it lands in the poll or
\* in the delay; one that lands in a handler invocation ends that
\* invocation, is discarded, and the loop goes on to its delay and its
\* next iteration.
C29_CancellationByPlace ==
    [][/\ EndsByCancellation =>
            (pc \in { "poll", "sleep" } /\ pc' = "terminated" /\ trace' = trace)
       /\ Appends("cancelled") =>
            /\ pc = "handler"
            /\ pc' = "sleep"
            /\ termCause' = "none"
            /\ inflight' = {}
      ]_vars

\* C29 witness: a cancellation landed in the invocation for the first
\* message and the loop has since started the invocation for the second
C29_Witness ==
    /\ Len(trace) = 3
    /\ trace[2] = Event("cancelled", 1)
    /\ trace[3] = Event("start", 2)
    /\ pc = "handler"
    /\ termCause = "none"

\* C30: no request gets more than one GET /calculate, every GET carries the
\* beatmap_id of the batch, and when the batch has ended there has been
\* exactly one GET per request, failed calls included.
C30_OneCallPerRequest ==
    /\ \A i \in DOMAIN tasks :
        /\ tasks[i].calls <= 1
        /\ tasks[i].calls = 1 <=> tasks[i].sent # None
        /\ tasks[i].sent # None => SentOf(i).beatmap_id = beatmap_id
    /\ fpc \in { "returned", "raised" } =>
        /\ Len(tasks) = Len(given)
        /\ \A i \in DOMAIN tasks : tasks[i].calls = 1

\* C30 witness: a batch of two has returned, the call of its first request
\* having failed, with one GET for each
C30_Witness ==
    /\ fpc = "returned"
    /\ Len(tasks) = 2
    /\ ServiceFailed(RespOf(1))
    /\ ServiceAnswered(RespOf(2))
    /\ tasks[1].calls = 1
    /\ tasks[2].calls = 1

(***************************************************************************)
(* Bounds of the placements of loaded scores (SpecRank).                   *)
(***************************************************************************)
\* the persisted row a loaded Score object was built from
OwnRecord(s) ==
    [ map_md5 |-> s.bmap_md5, mode |-> s.mode, status |-> s.status,
      userid |-> s.userid, pp |-> s.pp, score |-> s.score ]

\* the BEST rows of privilege-eligible users on the leaderboard of s
Board(s, rows) ==
    { r \in rows :
        /\ r.map_md5 = s.bmap_md5
        /\ r.mode = s.mode
        /\ r.status = BEST
        /\ UserPriv(r.userid) % 2 = 1 }

\* the rows of the leaderboard of s strictly above s under the mode's metric
Above(s, rows) ==
    { r \in Board(s, rows) : r[ModeMetric(s.mode)] > s[ModeMetric(s.mode)] }

\* C31: the placement of a score loaded from its persisted row does not
\* count that row (it is the same with the row taken out of the table);
\* it is 1 when no eligible BEST row of its beatmap and mode is strictly
\* above it; it is at most 1 + the number of eligible BEST rows of its
\* beatmap and mode; and it is 1 + the number of such rows strictly above
\* it whatever the score's own status and its owner's privilege, so that
\* two loaded scores that differ in nothing but status and owner have the
\* same placement.
C31_PlacementBounds ==
    /\ \A h \in Holders :
        loaded[h] # None =>
            LET s == loaded[h][1]
            IN  /\ OwnRecord(s) \in table
                /\ OwnRecord(s) \notin Above(s, table)
                /\ s.rank = 1 + Cardinality(Above(s, table \ { OwnRecord(s) }))
                /\ Above(s, table) = {} => s.rank = 1
                /\ s.rank >= 1
                /\ s.rank <= 1 + Cardinality(Board(s, table))
                /\ s.rank = 1 + Cardinality(Above(s, table))
    /\ \A g, h \in Holders :
        (loaded[g] # None /\ loaded[h] # None) =>
            LET a == loaded[g][1]
                b == loaded[h][1]
            IN  (SameBoard(a, b) /\ a.pp = b.pp /\ a.score = b.score)
                    => a.rank = b.rank

\* C31 witness: A is loaded from the only eligible BEST row of its
\* leaderboard and is placed 1, its own row not counting; B is loaded from
\* a row of the same leaderboard that is not BEST, below A, and is placed
\* 2 = 1 + the number of eligible BEST rows, like a BEST score would be
C31_Witness ==
    /\ loaded["A"] # None
    /\ loaded["B"] # None
    /\ OnLeaderboard(loaded["A"][1])
    /\ Board(loaded["A"][1], table) = { OwnRecord(loaded["A"][1]) }
    /\ loaded["A"][1].rank = 1
    /\ SameBoard(loaded["A"][1], loaded["B"][1])
    /\ loaded["B"][1].status # BEST
    /\ MetricValue(loaded["B"][1]) < MetricValue(loaded["A"][1])
    /\ loaded["B"][1].rank = 2
    /\ loaded["B"][1].rank = 1 + Cardinality(Board(loaded["B"][1], table))

====
